---- MODULE Spec2Model ----
(***************************************************************************)
(* Model of scripts/tree_density_estimator.py: the PrecisionSampler        *)
(* listener (pointer and key handlers, the release task it defers to the   *)
(* UI queue), the background monitor thread and finalize.                  *)
(*                                                                         *)
(* Units.  Lengths are integers counting 0.05 m (the click tolerance), so  *)
(* 0.5 m is 10 and 1.0 m2 is 400.  A coordinate is a pair of such lengths  *)
(* in the local tangent plane of the plot: lat grows to the north, lon to  *)
(* the east.  greatCircleDistance is the plane distance rounded down to    *)
(* the unit, and project_point moves a point along a cardinal bearing.     *)
(***************************************************************************)
EXTENDS Integers, Sequences, FiniteSets, TLC

(***************************************************************************)
(* Bounds of the model                                                     *)
(***************************************************************************)
MaxQueue == 1      \* release tasks waiting in the UI queue
MaxOrphans == 1    \* sample boxes in the layer beyond the sampler's own
MaxDiam == 2       \* calibration samples held at once
MaxTrees == 2      \* specimen marks held at once

(***************************************************************************)
(* CONFIG and the literals of the code                                     *)
(***************************************************************************)
SNAP_PRECISION == 10
CLICK_TOLERANCE == 1
MIN_AREA == 400
DENSITY_VERY_DENSE == 70
DENSITY_DENSE == 40
DENSITY_OPEN == 10
KEY_ENTER == 10
KEY_BACKSPACE == 8
KEY_DELETE == 127

(***************************************************************************)
(* Inputs: where the pointer can be, which keys can be pressed             *)
(***************************************************************************)
Pt(a, o) == [lat |-> a, lon |-> o]

NoPoint == Pt(-1, -1)

\* where the pointer goes down
PressPoints == {Pt(20, 20)}

\* where it is dragged to
DragPoints == {Pt(56, 54)}

\* where it comes up while the box is drawn: on the press point; 36 north and
\* 34 east of it (a box of 2.0 m x 1.5 m); 18 south and 16 west (0.9 m x 0.8 m,
\* snapped to 1.0 m x 1.0 m); 34 north and 14 west (1.7 m x 0.7 m, snapped to
\* 1.5 m x 0.5 m); 0.05 m east
BoxEnds == {Pt(20, 20), Pt(56, 54), Pt(2, 4), Pt(54, 6), Pt(20, 21)}

\* where it comes up afterwards: a drag of 0 m, of 0.05 m, of 1.2 m and of 2.45 m
MeasureEnds == {Pt(20, 20), Pt(20, 21), Pt(2, 4), Pt(56, 54)}

ReleasePoints == BoxEnds \cup MeasureEnds

\* where a click lands: inside, on the edges of and outside the two boxes
ClickPoints == {Pt(30, 30), Pt(10, 10), Pt(20, 30), Pt(60, 30), Pt(30, 20),
                Pt(30, 50), Pt(70, 70)}

\* the confirm key, the two undo keys and one key the sampler ignores
Keys == {KEY_ENTER, KEY_BACKSPACE, KEY_DELETE, 65}

(***************************************************************************)
(* Math helpers                                                            *)
(***************************************************************************)
Abs(x) == IF x < 0 THEN -x ELSE x

\* the largest r with r*r <= n
ISqrt(n) == CHOOSE r \in 0..n : r * r <= n /\ (r + 1) * (r + 1) > n

\* LatLon.greatCircleDistance of the host
GreatCircleDistance(p, q) ==
    ISqrt((p.lat - q.lat) * (p.lat - q.lat) + (p.lon - q.lon) * (p.lon - q.lon))

\* a snap that cuts the value down to the multiple below it
RoundToSnapDown(value) == (value \div SNAP_PRECISION) * SNAP_PRECISION

\* round(value / step) * step; round() of Python 2 takes a half away from zero
round_to_snap(value) ==
    ((2 * value + SNAP_PRECISION) \div (2 * SNAP_PRECISION)) * SNAP_PRECISION

\* project_point along bearing 0 (north), 90 (east), 180 (south), 270 (west)
project_point(p, dist, bearing) ==
    CASE bearing = 0 -> Pt(p.lat + dist, p.lon)
      [] bearing = 180 -> Pt(p.lat - dist, p.lon)
      [] bearing = 90 -> Pt(p.lat, p.lon + dist)
      [] bearing = 270 -> Pt(p.lat, p.lon - dist)

(***************************************************************************)
(* Primitives of the data layer.  A primitive is <<kind, group, part>>.    *)
(***************************************************************************)
BoxNode(k, i) == <<"box", k, i>>
BoxWay(k) == <<"box", k, 5>>
BoxNodes(k) == <<BoxNode(k, 1), BoxNode(k, 2), BoxNode(k, 3), BoxNode(k, 4)>>
\* Way.getNodes() of [n1, n2, n3, n4, n1]
WayNodes(k) == BoxNodes(k) \o <<BoxNode(k, 1)>>
LabelPrim == <<"label", 0, 0>>
NoPrim == <<"none", 0, 0>>
\* (line, l1, l2, lbl) of one calibration measurement
CalSet(i) == <<(<<"cal", i, 1>>), (<<"cal", i, 2>>), (<<"cal", i, 3>>), (<<"cal", i, 4>>)>>
TreePrim(i) == <<"tree", i, 0>>

Range(s) == {s[i] : i \in 1..Len(s)}
Front(s) == SubSeq(s, 1, Len(s) - 1)
Last(s) == s[Len(s)]

BoxesIn(l) == {p[2] : p \in {q \in l : q[1] = "box"}}

VARIABLES
    step,                  \* self.step
    start_p,               \* self.start_p, NoPoint for None
    sample_way,            \* self.sample_way: the serial of the box, 0 for None
    sample_nodes,          \* self.sample_nodes
    node_coor,             \* the coordinates of self.sample_nodes
    label_node,            \* self.label_node, NoPrim for None
    temp_lines,            \* self.temp_lines
    tree_nodes,            \* self.tree_nodes
    sample_poly,           \* self.sample_poly: the vertices of the Path2D, <<>> for None
    finished,              \* self.finished
    sample_area_sqm,       \* self.sample_area_sqm
    avg_diameter,          \* self.avg_diameter as <<sum, n>>, the quotient sum / n
    diameters,             \* self.diameters
    log_box_dims,          \* self.log_box_dims
    log_calibration_data,  \* self.log_calibration_data
    layer,                 \* layer.data: the primitives in the data set
    status,                \* the help text of the status line, without its numbers
    edt,                   \* the tasks SwingUtilities.invokeLater has queued
    listeners,             \* the listeners registered on the map view
    monitor_pc,            \* where the monitor thread is
    total_area,            \* total_area of the target
    target_tags,           \* the tags of the target
    dialogs,               \* the Smart Suggestion dialogs shown
    batch,                 \* the beginUpdate and endUpdate calls on layer.data
    runs,                  \* how often finalize has run
    raised,                \* the exceptions that ended a task of the UI thread
    setup_pc,              \* where run_analyzer is: start, installed, aborted, failed
    source_tag_val,        \* source_tag_val as <<active_layer_name, img_date>>
    calc                   \* the last application of a function of finalize on its own

samplerVars == <<step, start_p, sample_way, sample_nodes, node_coor, label_node,
                 temp_lines, tree_nodes, sample_poly, finished, sample_area_sqm,
                 avg_diameter, diameters, log_box_dims, log_calibration_data>>

setupVars == <<setup_pc, source_tag_val, calc>>

hostVars == <<listeners, monitor_pc, total_area, target_tags, dialogs, batch, runs,
              raised, setupVars>>

vars == <<samplerVars, layer, status, edt, hostVars>>

(***************************************************************************)
(* Init: run_analyzer has built the sampler, registered it three times on  *)
(* the map view and started the monitor thread.                            *)
(***************************************************************************)
TagKeys == {"natural", "landuse", "wood:density", "canopy", "est:stem_count",
            "est:avg_crown", "est:avg_spacing", "est:source_area", "source"}

\* a tag value is <<>> when the key is absent and <<v>> when it is v
Tags(nat, land) ==
    [k \in TagKeys |-> IF k = "natural" THEN nat
                       ELSE IF k = "landuse" THEN land ELSE <<>>]

\* the classification of the target before the survey
TargetKinds == {Tags(<<"scrub">>, <<>>), Tags(<<"wood">>, <<>>)}

\* the area of the target, in m2
TargetAreas == {40}

\* no function has been applied on its own
NoCalc == [fn |-> "none", arg |-> <<>>, out |-> <<>>]

\* the sampler as __init__ leaves it, registered, and the monitor started
InitSession ==
    /\ step = "DRAW_BOX"
    /\ start_p = NoPoint
    /\ sample_way = 0
    /\ sample_nodes = <<>>
    /\ node_coor = <<>>
    /\ label_node = NoPrim
    /\ temp_lines = <<>>
    /\ tree_nodes = <<>>
    /\ sample_poly = <<>>
    /\ finished = FALSE
    /\ sample_area_sqm = 0
    /\ avg_diameter = <<0, 1>>
    /\ diameters = <<>>
    /\ log_box_dims = <<0, 0>>
    /\ log_calibration_data = <<>>
    /\ layer = {}
    /\ status = ""
    /\ edt = <<>>
    /\ listeners = {"mouse", "motion", "key"}
    /\ monitor_pc = "wait"
    /\ total_area \in TargetAreas
    /\ target_tags \in TargetKinds
    /\ dialogs = <<>>
    /\ batch = [begun |-> 0, ended |-> 0]
    /\ runs = 0
    /\ raised = {}

Init ==
    /\ InitSession
    /\ setup_pc = "installed"
    /\ source_tag_val = <<"Bing", "2024-05-01">>
    /\ calc = NoCalc

(***************************************************************************)
(* PrecisionSampler: the pointer handlers                                  *)
(***************************************************************************)
\* the serial of the next Way() the sampler creates
NewBox == CHOOSE k \in 1..(MaxOrphans + 2) :
              /\ k \notin BoxesIn(layer)
              /\ \A j \in 1..(k - 1) : j \in BoxesIn(layer)

mousePressed(p, shift) ==
    /\ "mouse" \in listeners
    /\ IF shift
       THEN UNCHANGED vars
       ELSE /\ start_p' = p
            /\ IF step = "DRAW_BOX"
               THEN /\ Cardinality(BoxesIn(layer)) <= MaxOrphans
                    /\ sample_nodes' = BoxNodes(NewBox)
                    /\ node_coor' = <<p, p, p, p>>
                    /\ sample_way' = NewBox
                    /\ layer' = layer \cup Range(BoxNodes(NewBox)) \cup {BoxWay(NewBox)}
               ELSE UNCHANGED <<sample_nodes, node_coor, sample_way, layer>>
            /\ UNCHANGED <<step, label_node, temp_lines, tree_nodes, sample_poly,
                           finished, sample_area_sqm, avg_diameter, diameters,
                           log_box_dims, log_calibration_data, status, edt, hostVars>>

mouseDragged(p) ==
    /\ "motion" \in listeners
    /\ IF step = "DRAW_BOX" /\ start_p # NoPoint /\ sample_way # 0
       THEN /\ node_coor' = [node_coor EXCEPT ![2] = Pt(start_p.lat, p.lon),
                                              ![3] = p,
                                              ![4] = Pt(p.lat, start_p.lon)]
            \* get_label_node
            /\ label_node' = LabelPrim
            /\ layer' = IF label_node = NoPrim THEN layer \cup {LabelPrim} ELSE layer
            /\ status' = "Drawing Sample Box"
       ELSE /\ status' = IF step = "CALIBRATE" /\ start_p # NoPoint
                         THEN "Measuring Diameter" ELSE status
            /\ UNCHANGED <<node_coor, label_node, layer>>
    /\ UNCHANGED <<step, start_p, sample_way, sample_nodes, temp_lines, tree_nodes,
                   sample_poly, finished, sample_area_sqm, avg_diameter, diameters,
                   log_box_dims, log_calibration_data, edt, hostVars>>

ReleaseTasks == SelectSeq(edt, LAMBDA t : t.type = "release")

mouseReleased(p) ==
    /\ "mouse" \in listeners
    /\ IF start_p = NoPoint
       THEN UNCHANGED vars
       ELSE /\ p \in (IF step = "DRAW_BOX" THEN BoxEnds ELSE MeasureEnds)
            /\ Len(ReleaseTasks) < MaxQueue
            /\ step = "CALIBRATE" => Len(diameters) + Len(ReleaseTasks) < MaxDiam
            /\ start_p' = NoPoint
            \* SwingUtilities.invokeLater(process_release)
            /\ edt' = Append(edt, [type |-> "release", p1 |-> start_p, end_p |-> p])
            /\ UNCHANGED <<step, sample_way, sample_nodes, node_coor, label_node,
                           temp_lines, tree_nodes, sample_poly, finished,
                           sample_area_sqm, avg_diameter, diameters, log_box_dims,
                           log_calibration_data, layer, status, hostVars>>

(***************************************************************************)
(* java.awt.geom.Path2D.contains over the closed four-vertex path, with    *)
(* x = lat and y = lon as process_release builds it                        *)
(***************************************************************************)
\* Curve.pointCrossingsForLine: the crossing of the ray from (px, py) to +x
pointCrossingsForLine(px, py, x0, y0, x1, y1) ==
    IF py < y0 /\ py < y1 THEN 0
    ELSE IF py >= y0 /\ py >= y1 THEN 0
    ELSE IF px >= x0 /\ px >= x1 THEN 0
    ELSE IF px < x0 /\ px < x1 THEN (IF y0 < y1 THEN 1 ELSE -1)
    ELSE IF (IF y0 < y1
             THEN (px - x0) * (y1 - y0) >= (py - y0) * (x1 - x0)
             ELSE (px - x0) * (y1 - y0) <= (py - y0) * (x1 - x0))
         THEN 0
         ELSE (IF y0 < y1 THEN 1 ELSE -1)

EdgeCrossing(poly, i, p) ==
    LET a == poly[i]
        b == poly[(i % Len(poly)) + 1]
    IN  pointCrossingsForLine(p.lat, p.lon, a.lat, a.lon, b.lat, b.lon)

\* WIND_NON_ZERO: inside when the crossings do not cancel
contains(poly, p) ==
    EdgeCrossing(poly, 1, p) + EdgeCrossing(poly, 2, p)
        + EdgeCrossing(poly, 3, p) + EdgeCrossing(poly, 4, p) # 0

(***************************************************************************)
(* process_release: the task mouseReleased defers to the UI queue          *)
(***************************************************************************)
RECURSIVE Sum(_)
Sum(s) == IF s = <<>> THEN 0 ELSE Head(s) + Sum(Tail(s))

\* a mean that is the newest measurement alone
MeanOfLast(ds) == <<ds[Len(ds)], 1>>

\* sum(self.diameters) / len(self.diameters), as the pair <<sum, n>>
Mean(ds) == <<Sum(ds), Len(ds)>>

\* a guard that takes the threshold itself for too small
TooSmallOrEqual(area) == area <= MIN_AREA

\* a guard that rejects the 0 m x 0 m box only
TooSmallZeroOnly(area) == area = 0

\* no guard at all
TooSmallNever(area) == FALSE

\* the guard of the box: line 288
TooSmall(area) == area < MIN_AREA

\* a guard that lets a drag of just the tolerance pass
LongEnoughOrEqual(dist) == dist >= CLICK_TOLERANCE

\* the guard of a measurement: line 347
LongEnough(dist) == dist > CLICK_TOLERANCE

LabelSet == IF label_node = NoPrim THEN {} ELSE {label_node}

process_release ==
    /\ edt # <<>>
    /\ Head(edt).type = "release"
    /\ edt' = Tail(edt)
    /\ LET p1 == Head(edt).p1
           end_p == Head(edt).end_p
       IN
       IF step = "DRAW_BOX"
       THEN IF sample_nodes = <<>>
            THEN \* self.sample_nodes[0] raises IndexError: the task ends here
                 /\ raised' = raised \cup {"IndexError"}
                 /\ UNCHANGED <<samplerVars, layer, status, listeners, monitor_pc,
                                total_area, target_tags, dialogs, batch, runs,
                                setupVars>>
            ELSE
            LET start == node_coor[1]
                w_raw == GreatCircleDistance(start, Pt(start.lat, end_p.lon))
                h_raw == GreatCircleDistance(start, Pt(end_p.lat, start.lon))
                final_w == round_to_snap(w_raw)
                final_h == round_to_snap(h_raw)
                b_w == IF end_p.lon > start.lon THEN 90 ELSE 270
                b_h == IF end_p.lat < start.lat THEN 180 ELSE 0
                c2 == project_point(start, final_w, b_w)
                c4 == project_point(start, final_h, b_h)
                c3 == project_point(c4, final_w, b_w)
            IN
            /\ sample_area_sqm' = final_w * final_h
            /\ IF TooSmall(final_w * final_h)
               THEN /\ layer' = layer \ (Range(WayNodes(sample_way))
                                           \cup {BoxWay(sample_way)} \cup LabelSet)
                    /\ label_node' = NoPrim
                    /\ sample_way' = 0
                    /\ sample_nodes' = <<>>
                    /\ node_coor' = <<>>
                    /\ UNCHANGED <<step, log_box_dims, sample_poly>>
               ELSE /\ log_box_dims' = <<final_w, final_h>>
                    /\ node_coor' = <<start, c2, c3, c4>>
                    /\ sample_poly' = <<start, c2, c3, c4>>
                    /\ step' = "CALIBRATE"
                    /\ UNCHANGED <<layer, label_node, sample_way, sample_nodes>>
            /\ UNCHANGED <<start_p, temp_lines, tree_nodes, finished, avg_diameter,
                           diameters, log_calibration_data, status, hostVars>>
       ELSE IF step = "CALIBRATE" /\ LongEnough(GreatCircleDistance(p1, end_p))
       THEN LET dist == GreatCircleDistance(p1, end_p)
                new == CalSet(Len(temp_lines) + 1)
            IN
            /\ diameters' = Append(diameters, dist)
            /\ log_calibration_data' =
                   Append(log_calibration_data, <<p1.lat, p1.lon, end_p.lat, end_p.lon, dist>>)
            /\ layer' = layer \cup Range(new)
            /\ temp_lines' = Append(temp_lines, new)
            /\ status' = "Avg | ENTER to start counting."
            /\ UNCHANGED <<step, start_p, sample_way, sample_nodes, node_coor,
                           label_node, tree_nodes, sample_poly, finished,
                           sample_area_sqm, avg_diameter, log_box_dims, hostVars>>
       ELSE UNCHANGED <<samplerVars, layer, status, hostVars>>

(***************************************************************************)
(* PrecisionSampler: the counting click and the keys                       *)
(***************************************************************************)
\* the marker of the specimen kind chosen at set-up: "Trees"
marker_natural == "tree"

\* a click that numbers the mark with the count before it
mouseClickedNamesByCount(p, shift) ==
    /\ "mouse" \in listeners
    /\ IF step = "COUNTING" /\ shift /\ contains(sample_poly, p)
       THEN /\ Len(tree_nodes) < MaxTrees
            /\ tree_nodes' = Append(tree_nodes,
                   [prim |-> TreePrim(Len(tree_nodes) + 1),
                    name |-> Len(tree_nodes),
                    natural |-> marker_natural])
            /\ layer' = layer \cup {TreePrim(Len(tree_nodes) + 1)}
            /\ status' = "Count | ENTER to finish"
       ELSE UNCHANGED <<tree_nodes, layer, status>>
    /\ UNCHANGED <<step, start_p, sample_way, sample_nodes, node_coor, label_node,
                   temp_lines, sample_poly, finished, sample_area_sqm, avg_diameter,
                   diameters, log_box_dims, log_calibration_data, edt, hostVars>>

mouseClicked(p, shift) ==
    /\ "mouse" \in listeners
    /\ IF step = "COUNTING" /\ shift /\ contains(sample_poly, p)
       THEN /\ Len(tree_nodes) < MaxTrees
            /\ tree_nodes' = Append(tree_nodes,
                   [prim |-> TreePrim(Len(tree_nodes) + 1),
                    name |-> Len(tree_nodes) + 1,
                    natural |-> marker_natural])
            /\ layer' = layer \cup {TreePrim(Len(tree_nodes) + 1)}
            /\ status' = "Count | ENTER to finish"
       ELSE UNCHANGED <<tree_nodes, layer, status>>
    /\ UNCHANGED <<step, start_p, sample_way, sample_nodes, node_coor, label_node,
                   temp_lines, sample_poly, finished, sample_area_sqm, avg_diameter,
                   diameters, log_box_dims, log_calibration_data, edt, hostVars>>

RECURSIVE PrimsOf(_)
\* every primitive of a list of (line, l1, l2, lbl) tuples
PrimsOf(lines) ==
    IF lines = <<>> THEN {} ELSE Range(Head(lines)) \cup PrimsOf(Tail(lines))

\* an Enter that leaves the measurement lines on the map
EnterCalibrateKeepsLines ==
    /\ avg_diameter' = Mean(diameters)
    /\ layer' = layer \ LabelSet
    /\ label_node' = NoPrim
    /\ temp_lines' = <<>>
    /\ step' = "COUNTING"
    /\ status' = "SHIFT+CLICK to count."
    /\ UNCHANGED <<start_p, sample_way, sample_nodes, node_coor, tree_nodes,
                   sample_poly, finished, sample_area_sqm, diameters, log_box_dims,
                   log_calibration_data, edt, hostVars>>

\* Enter in CALIBRATE with a measurement: lines 386-402
EnterCalibrate ==
    /\ avg_diameter' = Mean(diameters)
    /\ layer' = layer \ (LabelSet \cup PrimsOf(temp_lines))
    /\ label_node' = NoPrim
    /\ temp_lines' = <<>>
    /\ step' = "COUNTING"
    /\ status' = "SHIFT+CLICK to count."
    /\ UNCHANGED <<start_p, sample_way, sample_nodes, node_coor, tree_nodes,
                   sample_poly, finished, sample_area_sqm, diameters, log_box_dims,
                   log_calibration_data, edt, hostVars>>

\* an Enter that finishes only once something is counted
EnterCountingGuarded ==
    /\ finished' = (tree_nodes # <<>>)
    /\ UNCHANGED <<step, start_p, sample_way, sample_nodes, node_coor, label_node,
                   temp_lines, tree_nodes, sample_poly, sample_area_sqm,
                   avg_diameter, diameters, log_box_dims, log_calibration_data,
                   layer, status, edt, hostVars>>

\* Enter in COUNTING: lines 404-406
EnterCounting ==
    /\ finished' = TRUE
    /\ UNCHANGED <<step, start_p, sample_way, sample_nodes, node_coor, label_node,
                   temp_lines, tree_nodes, sample_poly, sample_area_sqm,
                   avg_diameter, diameters, log_box_dims, log_calibration_data,
                   layer, status, edt, hostVars>>

\* an undo that leaves the label of the measurement on the map
UndoCalibrateKeepLabel ==
    /\ temp_lines' = Front(temp_lines)
    /\ diameters' = Front(diameters)
    /\ log_calibration_data' = Front(log_calibration_data)
    /\ layer' = layer \ {Last(temp_lines)[1], Last(temp_lines)[2], Last(temp_lines)[3]}
    /\ status' = IF Front(diameters) # <<>> THEN "Avg" ELSE "Measure diameter (Drag)"
    /\ UNCHANGED <<step, start_p, sample_way, sample_nodes, node_coor, label_node,
                   tree_nodes, sample_poly, finished, sample_area_sqm, avg_diameter,
                   log_box_dims, edt, hostVars>>

\* an undo that leaves the record of the measurement in the log
UndoCalibrateKeepsLog ==
    /\ temp_lines' = Front(temp_lines)
    /\ diameters' = Front(diameters)
    /\ layer' = layer \ Range(Last(temp_lines))
    /\ status' = IF Front(diameters) # <<>> THEN "Avg" ELSE "Measure diameter (Drag)"
    /\ UNCHANGED <<step, start_p, sample_way, sample_nodes, node_coor, label_node,
                   tree_nodes, sample_poly, finished, sample_area_sqm, avg_diameter,
                   log_box_dims, log_calibration_data, edt, hostVars>>

\* Backspace or Delete in CALIBRATE with a measurement: lines 410-428
UndoCalibrate ==
    /\ temp_lines' = Front(temp_lines)
    /\ diameters' = Front(diameters)
    /\ log_calibration_data' = Front(log_calibration_data)
    /\ layer' = layer \ Range(Last(temp_lines))
    /\ status' = IF Front(diameters) # <<>> THEN "Avg" ELSE "Measure diameter (Drag)"
    /\ UNCHANGED <<step, start_p, sample_way, sample_nodes, node_coor, label_node,
                   tree_nodes, sample_poly, finished, sample_area_sqm, avg_diameter,
                   log_box_dims, edt, hostVars>>

\* an undo that falls back to CALIBRATE when it removes the first mark
UndoCountingRollback ==
    /\ tree_nodes' = Front(tree_nodes)
    /\ layer' = layer \ {Last(tree_nodes).prim}
    /\ status' = "Count | ENTER to finish"
    /\ step' = IF Front(tree_nodes) = <<>> THEN "CALIBRATE" ELSE step
    /\ UNCHANGED <<start_p, sample_way, sample_nodes, node_coor, label_node,
                   temp_lines, sample_poly, finished, sample_area_sqm, avg_diameter,
                   diameters, log_box_dims, log_calibration_data, edt, hostVars>>

\* Backspace or Delete in COUNTING with a mark: lines 430-434
UndoCounting ==
    /\ tree_nodes' = Front(tree_nodes)
    /\ layer' = layer \ {Last(tree_nodes).prim}
    /\ status' = "Count | ENTER to finish"
    /\ UNCHANGED <<step, start_p, sample_way, sample_nodes, node_coor, label_node,
                   temp_lines, sample_poly, finished, sample_area_sqm, avg_diameter,
                   diameters, log_box_dims, log_calibration_data, edt, hostVars>>

keyPressed(code) ==
    /\ "key" \in listeners
    /\ IF code = KEY_ENTER
       THEN IF step = "CALIBRATE" /\ diameters # <<>> THEN EnterCalibrate
            ELSE IF step = "COUNTING" THEN EnterCounting
            ELSE UNCHANGED vars
       ELSE IF code \in {KEY_BACKSPACE, KEY_DELETE}
       THEN IF step = "CALIBRATE" /\ temp_lines # <<>> THEN UndoCalibrate
            ELSE IF step = "COUNTING" /\ tree_nodes # <<>> THEN UndoCounting
            ELSE UNCHANGED vars
       ELSE UNCHANGED vars

(***************************************************************************)
(* monitor: the background thread of run_analyzer                          *)
(***************************************************************************)
\* a monitor that sleeps on whatever the flag says
monitorWaitIgnoresFlag ==
    /\ monitor_pc = "wait"
    /\ monitor_pc' = "wait"
    /\ UNCHANGED <<samplerVars, layer, status, edt, listeners, total_area,
                   target_tags, dialogs, batch, runs, raised, setupVars>>

\* while not tool.finished: time.sleep(0.1)
monitorWait ==
    /\ monitor_pc = "wait"
    /\ monitor_pc' = IF finished THEN "removeListeners" ELSE "wait"
    /\ UNCHANGED <<samplerVars, layer, status, edt, listeners, total_area,
                   target_tags, dialogs, batch, runs, raised, setupVars>>

\* view.removeMouseListener, removeMouseMotionListener, removeKeyListener.  The three
\* calls are one step: a handler neither reads nor writes the registrations, so an
\* event delivered between two of the calls acts as one delivered before the first.
monitorRemoveListeners ==
    /\ monitor_pc = "removeListeners"
    /\ listeners' = ((listeners \ {"mouse"}) \ {"motion"}) \ {"key"}
    /\ monitor_pc' = "invokeLater"
    /\ UNCHANGED <<samplerVars, layer, status, edt, total_area, target_tags,
                   dialogs, batch, runs, raised, setupVars>>

\* a monitor that runs the clean-up of finalize on its own thread
monitorCleansUpItself ==
    /\ monitor_pc = "invokeLater"
    /\ monitor_pc' = "done"
    /\ layer' = layer \ ({tree_nodes[i].prim : i \in 1..Len(tree_nodes)}
                            \cup {q \in layer : q[1] = "box" /\ q[2] = sample_way})
    /\ status' = ""
    /\ UNCHANGED <<samplerVars, edt, listeners, total_area, target_tags, dialogs,
                   batch, runs, raised, setupVars>>

\* SwingUtilities.invokeLater(finalize)
monitorInvokeLater ==
    /\ monitor_pc = "invokeLater"
    /\ edt' = Append(edt, [type |-> "finalize", p1 |-> NoPoint, end_p |-> NoPoint])
    /\ monitor_pc' = "done"
    /\ UNCHANGED <<samplerVars, layer, status, listeners, total_area, target_tags,
                   dialogs, batch, runs, raised, setupVars>>

(***************************************************************************)
(* finalize: extrapolation, tags, clean-up                                 *)
(***************************************************************************)
Min(a, b) == IF a < b THEN a ELSE b

\* an estimate rounded up instead of cut off
EstTotalRoundedUp(count, area, total) == (400 * count * total + area - 1) \div area

\* int(density_ratio * total_area), density_ratio = float(count) / sample_area_sqm;
\* an area in the model's unit is 1/400 m2
EstTotal(count, area, total) == (400 * count * total) \div area

\* a canopy percentage without the cap of 100
CanopyPcUncapped(est, avg, total) ==
    ((2 * (est * 355 * avg[1] * avg[1]) + 80 * avg[2] * avg[2] * total * 113)
        \div (2 * (80 * avg[2] * avg[2] * total * 113))) * 5

\* min(100, int(round(((est_total * indiv_area) / total_area) * 100 / 5.0) * 5)) with
\* indiv_area = pi * (avg / 2) ** 2, avg = sum / n in units of 0.05 m, pi as 355 / 113
CanopyPc(est, avg, total) ==
    LET num == est * 355 * avg[1] * avg[1]
        den == 80 * avg[2] * avg[2] * total * 113
    IN  Min(100, ((2 * num + den) \div (2 * den)) * 5)

\* a classification whose classes are open at the lower end
DensityClassAbove(canopy_pc) ==
    IF canopy_pc > DENSITY_VERY_DENSE THEN "very_dense"
    ELSE IF canopy_pc > DENSITY_DENSE THEN "dense"
    ELSE IF canopy_pc > DENSITY_OPEN THEN "open"
    ELSE "scattered"

\* density_class: lines 480-485
DensityClass(canopy_pc) ==
    IF canopy_pc >= DENSITY_VERY_DENSE THEN "very_dense"
    ELSE IF canopy_pc >= DENSITY_DENSE THEN "dense"
    ELSE IF canopy_pc >= DENSITY_OPEN THEN "open"
    ELSE "scattered"

\* "{:.1f}m".format(tool.avg_diameter): the tenths of a metre
AvgTenths(avg) == (avg[1] + avg[2]) \div (2 * avg[2])

\* "{:.1f}m".format(math.sqrt(1.0 / density_ratio)): the tenths of a metre
SpacingTenths(count, area) ==
    CHOOSE t \in 0..area :
        /\ t > 0 => (2 * t - 1) * (2 * t - 1) * count <= area
        /\ area < (2 * t + 1) * (2 * t + 1) * count

\* the answers of the Smart Suggestion dialog: yes, no, cancel, closed (-1)
Answers == {"YES", "NO", "CANCEL", "CLOSED"}

\* a suggestion that does not look at landuse
SuggestionIgnoringLanduse(density_class, curr_nat, curr_land) ==
    IF density_class \in {"dense", "very_dense"} /\ curr_nat = <<"scrub">>
    THEN "scrub->wood"
    ELSE IF density_class \in {"scattered", "open"} /\ curr_nat = <<"wood">>
    THEN "wood->scrub"
    ELSE "none"

\* which suggestion finalize shows: lines 509 and 519
Suggestion(density_class, curr_nat, curr_land) ==
    IF density_class \in {"dense", "very_dense"} /\ curr_nat = <<"scrub">>
    THEN "scrub->wood"
    ELSE IF /\ density_class \in {"scattered", "open"}
            /\ curr_nat = <<"wood">>
            /\ curr_land # <<"forest">>
    THEN "wood->scrub"
    ELSE "none"

\* a perform_save that takes a closed dialog (-1) for a "no"
PerformSaveCancelOnly(suggestion, res) == suggestion = "none" \/ res # "CANCEL"

\* perform_save after the dialog answered res: lines 512-516 and 522-526
PerformSave(suggestion, res) == suggestion = "none" \/ res \notin {"CANCEL", "CLOSED"}

\* final_tags, with the reclassification when the suggestion was accepted
FinalTags(count, area, avg, total, suggestion, res) ==
    LET est == EstTotal(count, area, total)
        pc == CanopyPc(est, avg, total)
        derived == [k \in {"wood:density", "canopy", "est:stem_count", "est:avg_crown",
                           "est:avg_spacing", "est:source_area", "source"} |->
                       CASE k = "wood:density" -> <<DensityClass(pc)>>
                         [] k = "canopy" -> <<pc>>
                         [] k = "est:stem_count" -> <<est>>
                         [] k = "est:avg_crown" -> <<AvgTenths(avg)>>
                         [] k = "est:avg_spacing" -> <<SpacingTenths(count, area)>>
                         [] k = "est:source_area" -> <<total>>
                         [] k = "source" -> <<source_tag_val>>]
    IN  IF suggestion # "none" /\ res = "YES"
        THEN [k \in DOMAIN derived \cup {"natural"} |->
                 IF k = "natural"
                 THEN (IF suggestion = "scrub->wood" THEN <<"wood">> ELSE <<"scrub">>)
                 ELSE derived[k]]
        ELSE derived

\* for k, v in final_tags.items(): target.put(k, v)
PutAll(tags, final_tags) ==
    [k \in DOMAIN tags |-> IF k \in DOMAIN final_tags THEN final_tags[k] ELSE tags[k]]

\* the primitives the clean-up of lines 576-583 removes
CleanupSet ==
    {tree_nodes[i].prim : i \in 1..Len(tree_nodes)}
        \cup (IF sample_way # 0
              THEN Range(WayNodes(sample_way)) \cup {BoxWay(sample_way)}
              ELSE {})
        \cup LabelSet

finalize(res) ==
    /\ edt # <<>>
    /\ Head(edt).type = "finalize"
    /\ edt' = Tail(edt)
    /\ runs' = runs + 1
    /\ batch' = [begun |-> batch.begun + 1, ended |-> batch.ended + 1]
    /\ LET count == Len(tree_nodes) IN
       IF count > 0 /\ sample_area_sqm = 0
       THEN \* float(count) / tool.sample_area_sqm raises ZeroDivisionError
            /\ raised' = raised \cup {"ZeroDivisionError"}
            /\ UNCHANGED <<layer, status, target_tags, dialogs>>
       ELSE /\ raised' = raised
            /\ layer' = layer \ CleanupSet
            /\ status' = ""
            /\ IF count > 0
               THEN LET est == EstTotal(count, sample_area_sqm, total_area)
                        pc == CanopyPc(est, avg_diameter, total_area)
                        sg == Suggestion(DensityClass(pc), target_tags["natural"],
                                         target_tags["landuse"])
                    IN  /\ dialogs' = IF sg = "none" THEN dialogs
                                      ELSE Append(dialogs, [kind |-> sg, answer |-> res])
                        /\ target_tags' =
                               IF PerformSave(sg, res)
                               THEN PutAll(target_tags,
                                           FinalTags(count, sample_area_sqm, avg_diameter,
                                                     total_area, sg, res))
                               ELSE target_tags
               ELSE UNCHANGED <<target_tags, dialogs>>
    /\ UNCHANGED <<samplerVars, listeners, monitor_pc, total_area, setupVars>>

(***************************************************************************)
(* The specification                                                       *)
(***************************************************************************)
Next ==
    \/ \E p \in PressPoints, shift \in BOOLEAN : mousePressed(p, shift)
    \/ \E p \in DragPoints : mouseDragged(p)
    \/ \E p \in ReleasePoints : mouseReleased(p)
    \/ process_release
    \/ \E p \in ClickPoints, shift \in BOOLEAN : mouseClicked(p, shift)
    \/ \E code \in Keys : keyPressed(code)
    \/ monitorWait
    \/ monitorRemoveListeners
    \/ monitorInvokeLater
    \/ \E res \in Answers : finalize(res)

Spec == Init /\ [][Next]_vars

(***************************************************************************)
(* run_analyzer from its first line: the set-up, its dialogs, and then the *)
(* session.  The dialogs it shows are modal and nothing of the script is   *)
(* registered before line 446, so the set-up is one step.                  *)
(***************************************************************************)
\* what run_analyzer finds and what the user answers: the edit layer, the
\* selection, Geometry.computeArea (an area, an exception, or None), the name of a
\* visible imagery layer ("" for none), the answer to the imagery warning, the
\* imagery date (<<>> for Cancel) and the choice of vegetation (-1 for closed,
\* 0 for Trees)
SetupEnvs ==
    [layer : BOOLEAN, selected : BOOLEAN, area : {"ok", "throws", "none"},
     imagery : {"Bing", ""}, warn : {"YES", "NO", "CLOSED"},
     img_date : {<<>>, <<"2024-05-01">>}, choice : {-1, 0}]

\* the dialogs of lines 98, 123-126, 133-135 and 149-152 that run_analyzer shows
SetupDialogs(env) ==
    IF ~env.layer THEN <<>>
    ELSE IF ~env.selected
    THEN <<[kind |-> "Select the main area polygon first.", answer |-> "OK"]>>
    ELSE IF env.area # "ok" THEN <<>>
    ELSE (IF env.imagery = ""
          THEN <<[kind |-> "Missing Imagery Warning", answer |-> env.warn]>>
          ELSE <<>>)
         \o (IF env.imagery = "" /\ env.warn # "YES" THEN <<>>
             ELSE <<[kind |-> "Imagery Date",
                     answer |-> IF env.img_date = <<>> THEN "CANCEL" ELSE "OK"]>>
                  \o (IF env.img_date = <<>> THEN <<>>
                      ELSE <<[kind |-> "Vegetation Type",
                              answer |-> IF env.choice = -1 THEN "CLOSED"
                                         ELSE "Trees"]>>))

\* the return statements of lines 94, 99, 127, 137 and 154
SetupReturns(env) ==
    \/ ~env.layer
    \/ ~env.selected
    \/ env.imagery = "" /\ env.warn # "YES"
    \/ env.img_date = <<>>
    \/ env.choice = -1

\* a set-up that registers the sampler before it asks for the vegetation
run_analyzerRegistersEarly(env) ==
    /\ setup_pc = "start"
    /\ dialogs' = dialogs \o SetupDialogs(env)
    /\ IF env.layer /\ env.selected /\ env.area # "ok"
       THEN /\ setup_pc' = "failed"
            /\ raised' = raised \cup {IF env.area = "throws" THEN "computeArea"
                                      ELSE "TypeError"}
            /\ UNCHANGED <<step, listeners, monitor_pc, total_area, source_tag_val>>
       ELSE IF SetupReturns(env)
       THEN /\ setup_pc' = "aborted"
            /\ listeners' = IF env.layer /\ env.selected /\ env.img_date # <<>>
                               /\ (env.imagery # "" \/ env.warn = "YES")
                            THEN {"mouse", "motion", "key"} ELSE listeners
            /\ UNCHANGED <<step, monitor_pc, total_area, source_tag_val, raised>>
       ELSE /\ setup_pc' = "installed"
            /\ total_area' \in TargetAreas
            /\ source_tag_val' = <<IF env.imagery = "" THEN "Unknown Source"
                                   ELSE env.imagery, env.img_date[1]>>
            /\ step' = "DRAW_BOX"
            /\ listeners' = {"mouse", "motion", "key"}
            /\ monitor_pc' = "wait"
            /\ raised' = raised
    /\ UNCHANGED <<start_p, sample_way, sample_nodes, node_coor, label_node, temp_lines,
                   tree_nodes, sample_poly, finished, sample_area_sqm, avg_diameter,
                   diameters, log_box_dims, log_calibration_data, layer, status, edt,
                   target_tags, batch, runs, calc>>

\* run_analyzer up to Thread(target=monitor).start(): lines 90-162, 444-449, 593
run_analyzer(env) ==
    /\ setup_pc = "start"
    /\ dialogs' = dialogs \o SetupDialogs(env)
    /\ IF env.layer /\ env.selected /\ env.area # "ok"
       THEN \* line 106 raises (abs(None) is a TypeError): nothing catches it
            /\ setup_pc' = "failed"
            /\ raised' = raised \cup {IF env.area = "throws" THEN "computeArea"
                                      ELSE "TypeError"}
            /\ UNCHANGED <<step, listeners, monitor_pc, total_area, source_tag_val>>
       ELSE IF SetupReturns(env)
       THEN /\ setup_pc' = "aborted"
            /\ UNCHANGED <<step, listeners, monitor_pc, total_area, source_tag_val,
                           raised>>
       ELSE /\ setup_pc' = "installed"
            /\ total_area' \in TargetAreas
            /\ source_tag_val' = <<IF env.imagery = "" THEN "Unknown Source"
                                   ELSE env.imagery, env.img_date[1]>>
            \* tool = PrecisionSampler()
            /\ step' = "DRAW_BOX"
            /\ listeners' = {"mouse", "motion", "key"}
            \* Thread(target=monitor).start()
            /\ monitor_pc' = "wait"
            /\ raised' = raised
    /\ UNCHANGED <<start_p, sample_way, sample_nodes, node_coor, label_node, temp_lines,
                   tree_nodes, sample_poly, finished, sample_area_sqm, avg_diameter,
                   diameters, log_box_dims, log_calibration_data, layer, status, edt,
                   target_tags, batch, runs, calc>>

\* before run_analyzer: no sampler, no listener, no thread
InitSetup ==
    /\ step = "NONE"
    /\ start_p = NoPoint
    /\ sample_way = 0
    /\ sample_nodes = <<>>
    /\ node_coor = <<>>
    /\ label_node = NoPrim
    /\ temp_lines = <<>>
    /\ tree_nodes = <<>>
    /\ sample_poly = <<>>
    /\ finished = FALSE
    /\ sample_area_sqm = 0
    /\ avg_diameter = <<0, 1>>
    /\ diameters = <<>>
    /\ log_box_dims = <<0, 0>>
    /\ log_calibration_data = <<>>
    /\ layer = {}
    /\ status = ""
    /\ edt = <<>>
    /\ listeners = {}
    /\ monitor_pc = "unstarted"
    /\ total_area = 0
    /\ target_tags \in TargetKinds
    /\ dialogs = <<>>
    /\ batch = [begun |-> 0, ended |-> 0]
    /\ runs = 0
    /\ raised = {}
    /\ setup_pc = "start"
    /\ source_tag_val = <<>>
    /\ calc = NoCalc

NextSetup ==
    \/ \E env \in SetupEnvs : run_analyzer(env)
    \/ Next

SpecSetup == InitSetup /\ [][NextSetup]_vars

(***************************************************************************)
(* finalize over sessions drawn at the moment it runs: the survey is in    *)
(* COUNTING, Enter was pressed, the monitor has removed the listeners and  *)
(* queued finalize.  Boxes, counts and targets are wider here than a       *)
(* session of Spec grows them.                                             *)
(***************************************************************************)
\* est_total * (sum of the diameters) ** 2 that CanopyPc can hold in 32 bits
MaxCrownSum == 2500000

FinalCounts == {1, 2, 10}
\* (final_w, final_h): 1.0 m x 1.0 m, 1.5 m x 2.0 m, 20 m x 10 m
FinalBoxes == {<<20, 20>>, <<30, 40>>, <<400, 200>>}
\* the diameters measured: 0.4 m; 2.0 m; 2.45 m and 1.2 m; 1.8 m
FinalDiameters == {<<8>>, <<40>>, <<49, 24>>, <<36>>}
FinalTotals == {40, 5000}
FinalTargets == {Tags(nat, land) : nat \in {<<>>, <<"scrub">>, <<"wood">>, <<"heath">>},
                                   land \in {<<>>, <<"forest">>}}

Representable(count, area, avg, total) ==
    EstTotal(count, area, total) * avg[1] * avg[1] <= MaxCrownSum

\* the corners process_release gives a box of w x h drawn to the north-east of p
BoxCorners(p, w, h) ==
    <<p, project_point(p, w, 90), project_point(project_point(p, h, 0), w, 90),
      project_point(p, h, 0)>>

InitFinal ==
    \E count \in FinalCounts, box \in FinalBoxes, ds \in FinalDiameters,
       total \in FinalTotals, tags \in FinalTargets :
        /\ Representable(count, box[1] * box[2], Mean(ds), total)
        /\ step = "COUNTING"
        /\ start_p = NoPoint
        /\ sample_way = 1
        /\ sample_nodes = BoxNodes(1)
        /\ node_coor = BoxCorners(Pt(20, 20), box[1], box[2])
        /\ label_node = NoPrim
        /\ temp_lines = <<>>
        /\ tree_nodes = [i \in 1..count |->
                            [prim |-> TreePrim(i), name |-> i, natural |-> marker_natural]]
        /\ sample_poly = BoxCorners(Pt(20, 20), box[1], box[2])
        /\ finished = TRUE
        /\ sample_area_sqm = box[1] * box[2]
        /\ avg_diameter = Mean(ds)
        /\ diameters = ds
        /\ log_box_dims = box
        /\ log_calibration_data =
               [i \in 1..Len(ds) |-> <<20, 20, 20, 20 + ds[i], ds[i]>>]
        /\ layer = Range(BoxNodes(1)) \cup {BoxWay(1)} \cup {TreePrim(i) : i \in 1..count}
        /\ status = "Count | ENTER to finish"
        /\ edt = <<[type |-> "finalize", p1 |-> NoPoint, end_p |-> NoPoint]>>
        /\ listeners = {}
        /\ monitor_pc = "done"
        /\ total_area = total
        /\ target_tags = tags
        /\ dialogs = <<>>
        /\ batch = [begun |-> 0, ended |-> 0]
        /\ runs = 0
        /\ raised = {}
        /\ setup_pc = "installed"
        /\ source_tag_val = <<"Bing", "2024-05-01">>
        /\ calc = NoCalc

NextFinal == \E res \in Answers : finalize(res)

SpecFinal == InitFinal /\ [][NextFinal]_vars

(***************************************************************************)
(* finalize when the host rejects a tag: target.put raises after some of   *)
(* the tags are on the target.  final_tags.items() yields the tags in the  *)
(* order of the dictionary, which the code does not fix: any tags may have *)
(* been written before the one that is rejected.                           *)
(***************************************************************************)
\* tags written before the host rejects one
MaxWritten == 1

\* a finalize without the finally clause: the exception leaves the batch open
finalizePutFailsNoFinally(res, written) ==
    /\ Cardinality(written) <= MaxWritten
    /\ edt # <<>>
    /\ Head(edt).type = "finalize"
    /\ edt' = Tail(edt)
    /\ runs' = runs + 1
    /\ batch' = [begun |-> batch.begun + 1, ended |-> batch.ended]
    /\ Len(tree_nodes) > 0
    /\ sample_area_sqm > 0
    /\ LET count == Len(tree_nodes)
           est == EstTotal(count, sample_area_sqm, total_area)
           pc == CanopyPc(est, avg_diameter, total_area)
           sg == Suggestion(DensityClass(pc), target_tags["natural"],
                            target_tags["landuse"])
           final_tags == FinalTags(count, sample_area_sqm, avg_diameter, total_area,
                                   sg, res)
       IN  /\ PerformSave(sg, res)
           /\ written \subseteq DOMAIN final_tags
           /\ written # DOMAIN final_tags
           /\ dialogs' = IF sg = "none" THEN dialogs
                         ELSE Append(dialogs, [kind |-> sg, answer |-> res])
           /\ target_tags' = [k \in DOMAIN target_tags |->
                                 IF k \in written THEN final_tags[k] ELSE target_tags[k]]
    \* the exception leaves the try block: the log, the summary and the clean-up of
    \* lines 532-584 are skipped
    /\ raised' = raised \cup {"target.put"}
    /\ UNCHANGED <<samplerVars, layer, status, listeners, monitor_pc, total_area,
                   setupVars>>

\* finalize of lines 462-588 when target.put raises at line 530
finalizePutFails(res, written) ==
    /\ Cardinality(written) <= MaxWritten
    /\ edt # <<>>
    /\ Head(edt).type = "finalize"
    /\ edt' = Tail(edt)
    /\ runs' = runs + 1
    \* layer.data.beginUpdate() and, in the finally clause, layer.data.endUpdate()
    /\ batch' = [begun |-> batch.begun + 1, ended |-> batch.ended + 1]
    /\ Len(tree_nodes) > 0
    /\ sample_area_sqm > 0
    /\ LET count == Len(tree_nodes)
           est == EstTotal(count, sample_area_sqm, total_area)
           pc == CanopyPc(est, avg_diameter, total_area)
           sg == Suggestion(DensityClass(pc), target_tags["natural"],
                            target_tags["landuse"])
           final_tags == FinalTags(count, sample_area_sqm, avg_diameter, total_area,
                                   sg, res)
       IN  /\ PerformSave(sg, res)
           /\ written \subseteq DOMAIN final_tags
           /\ written # DOMAIN final_tags
           /\ dialogs' = IF sg = "none" THEN dialogs
                         ELSE Append(dialogs, [kind |-> sg, answer |-> res])
           /\ target_tags' = [k \in DOMAIN target_tags |->
                                 IF k \in written THEN final_tags[k] ELSE target_tags[k]]
    \* the exception leaves the try block: the log, the summary and the clean-up of
    \* lines 532-584 are skipped
    /\ raised' = raised \cup {"target.put"}
    /\ UNCHANGED <<samplerVars, layer, status, listeners, monitor_pc, total_area,
                   setupVars>>

NextPutFails ==
    \/ \E res \in Answers : finalize(res)
    \/ \E res \in Answers, written \in SUBSET TagKeys : finalizePutFails(res, written)

SpecPutFails == InitFinal /\ [][NextPutFails]_vars

(***************************************************************************)
(* The density classification of lines 480-485 on its own, over every      *)
(* canopy percentage                                                       *)
(***************************************************************************)
CanopyValues == 0..100

InitDensity ==
    /\ InitSession
    /\ setup_pc = "installed"
    /\ source_tag_val = <<"Bing", "2024-05-01">>
    /\ calc \in {[fn |-> "density_class", arg |-> <<c>>, out |-> <<>>] : c \in CanopyValues}

\* density_class = (...) for the canopy_pc drawn
ClassifyDensity ==
    /\ calc.fn = "density_class"
    /\ calc.out = <<>>
    /\ calc' = [calc EXCEPT !.out = <<DensityClass(calc.arg[1])>>]
    /\ UNCHANGED <<samplerVars, layer, status, edt, listeners, monitor_pc, total_area,
                   target_tags, dialogs, batch, runs, raised, setup_pc,
                   source_tag_val>>

NextDensity == ClassifyDensity

SpecDensity == InitDensity /\ [][NextDensity]_vars

(***************************************************************************)
(* The session under fair scheduling: the monitor thread gets to run, and  *)
(* the UI thread takes the task at the head of its queue (a dialog a task  *)
(* shows is answered).  No fairness for the events: the user may stop.     *)
(***************************************************************************)
SpecLive ==
    /\ Init
    /\ [][Next]_vars
    /\ WF_vars(monitorWait)
    /\ WF_vars(monitorRemoveListeners)
    /\ WF_vars(monitorInvokeLater)
    /\ WF_vars(process_release)
    /\ WF_vars(\E res \in Answers : finalize(res))

(***************************************************************************)
(* What the claims speak of                                                *)
(***************************************************************************)
\* the stage of the session: FINISHED is self.finished, which the code sets
\* in place of a fourth value of self.step
Rank(s, f) ==
    IF f THEN 4
    ELSE CASE s = "DRAW_BOX" -> 1 [] s = "CALIBRATE" -> 2 [] s = "COUNTING" -> 3

UndoKey == \E code \in {KEY_BACKSPACE, KEY_DELETE} : keyPressed(code)

\* the multiple of 0.5 m nearest to v, the upper one when two are as near
Nearest(v) ==
    CHOOSE s \in {SNAP_PRECISION * k : k \in 0..(v \div SNAP_PRECISION + 1)} :
        \A t \in {SNAP_PRECISION * k : k \in 0..(v \div SNAP_PRECISION + 1)} :
            Abs(t - v) > Abs(s - v) \/ (Abs(t - v) = Abs(s - v) /\ t <= s)

\* the release task at the head of the UI queue acts on the sampler's box
BoxRelease == process_release /\ step = "DRAW_BOX" /\ sample_nodes # <<>>

\* the width and the height dragged, from the first corner to the release point
DraggedW == Abs(Head(edt).end_p.lon - node_coor[1].lon)
DraggedH == Abs(Head(edt).end_p.lat - node_coor[1].lat)

\* the primitives of the sampler's own box and label
OwnBox == {q \in layer : q[1] = "box" /\ q[2] = sample_way}
OwnArtifacts == OwnBox \cup {q \in layer : q[1] = "label"}

\* C1: the stage only moves forward, one stage at a time, along DRAW_BOX,
\* CALIBRATE, COUNTING, FINISHED; an undo key leaves the stage alone and removes
\* nothing or the newest measurement or the newest mark, with its artifacts.
C1_StageForward ==
    [][/\ Rank(step', finished') \in {Rank(step, finished), Rank(step, finished) + 1}
       /\ UndoKey =>
            /\ step' = step
            /\ finished' = finished
            /\ \/ UNCHANGED <<temp_lines, diameters, log_calibration_data,
                              tree_nodes, layer>>
               \/ /\ step = "CALIBRATE"
                  /\ temp_lines # <<>>
                  /\ temp_lines' = Front(temp_lines)
                  /\ diameters' = Front(diameters)
                  /\ log_calibration_data' = Front(log_calibration_data)
                  /\ tree_nodes' = tree_nodes
                  /\ layer' = layer \ Range(Last(temp_lines))
               \/ /\ step = "COUNTING"
                  /\ tree_nodes # <<>>
                  /\ tree_nodes' = Front(tree_nodes)
                  /\ UNCHANGED <<temp_lines, diameters, log_calibration_data>>
                  /\ layer' = layer \ {Last(tree_nodes).prim}]_vars

\* the session is finished after an undo in COUNTING took the last mark away
C1_Witness ==
    finished /\ tree_nodes = <<>> /\ status = "Count | ENTER to finish"

\* C2 as claimed: a release on a box dragged to a positive width and height with
\* width * height >= 1.0 m2 moves to CALIBRATE with the area snap(w) * snap(h).
C2_Original ==
    [][(BoxRelease /\ DraggedW > 0 /\ DraggedH > 0
          /\ DraggedW * DraggedH >= MIN_AREA)
       => (step' = "CALIBRATE"
             /\ sample_area_sqm' = Nearest(DraggedW) * Nearest(DraggedH))]_vars

\* C2 amended: a release on a box dragged to a width and height whose snapped
\* product is >= 1.0 m2 moves to CALIBRATE, with the area and the logged
\* dimensions those of the snapped width and height.
C2_SnappedBoxAccepted ==
    [][(BoxRelease /\ Nearest(DraggedW) * Nearest(DraggedH) >= MIN_AREA)
       => (/\ step' = "CALIBRATE"
           /\ sample_area_sqm' = Nearest(DraggedW) * Nearest(DraggedH)
           /\ log_box_dims' = <<Nearest(DraggedW), Nearest(DraggedH)>>)]_vars

\* the box dragged 1.7 m x 1.8 m stands as 1.5 m x 2.0 m, 3.0 m2
C2_Witness ==
    step = "CALIBRATE" /\ sample_area_sqm = 1200 /\ log_box_dims = <<30, 40>>

C4_Original ==
    /\ log_box_dims[1] * log_box_dims[2] = sample_area_sqm
    /\ sample_area_sqm < MIN_AREA => step = "DRAW_BOX"

\* C4 amended: once a box is accepted the logged width times the logged height
\* is the recorded area, which is >= 1.0 m2; while the stage is DRAW_BOX the
\* logged dimensions are still 0 x 0 and the recorded area is below 1.0 m2 (0,
\* or the product of the last rejected attempt).
C4_DimsAndArea ==
    /\ step # "DRAW_BOX" =>
          /\ log_box_dims[1] * log_box_dims[2] = sample_area_sqm
          /\ sample_area_sqm >= MIN_AREA
    /\ step = "DRAW_BOX" =>
          /\ log_box_dims = <<0, 0>>
          /\ sample_area_sqm < MIN_AREA

\* after an attempt of 0.5 m x 1.5 m was rejected a press has begun the next box
C4_Witness ==
    /\ step = "DRAW_BOX"
    /\ sample_area_sqm = 300
    /\ log_box_dims = <<0, 0>>
    /\ start_p # NoPoint
    /\ sample_way # 0

CalPrims(l) == {q \in l : q[1] = "cal"}

\* C6: Enter in CALIBRATE without a sample changes nothing; the stage moves from
\* CALIBRATE to COUNTING only by Enter with at least one sample; in COUNTING the
\* average diameter and the samples no longer change, and the average is the mean
\* of the samples and greater than the click tolerance.
C6_AverageOnConfirm ==
    [][/\ (keyPressed(KEY_ENTER) /\ step = "CALIBRATE" /\ diameters = <<>>)
            => UNCHANGED vars
       /\ (step = "CALIBRATE" /\ step' = "COUNTING")
            => (keyPressed(KEY_ENTER) /\ diameters # <<>> /\ diameters' = diameters)
       /\ step = "COUNTING"
            => (avg_diameter' = avg_diameter /\ diameters' = diameters)
       /\ step' = "COUNTING"
            => /\ avg_diameter'[2] > 0
               /\ avg_diameter'[1] * Len(diameters') = avg_diameter'[2] * Sum(diameters')
               /\ avg_diameter'[1] > CLICK_TOLERANCE * avg_diameter'[2]]_vars

\* finalize has run on the mean of two samples of different lengths
C6_Witness ==
    /\ runs = 1
    /\ step = "COUNTING"
    /\ Len(diameters) = 2
    /\ diameters[1] # diameters[2]
    /\ avg_diameter = <<diameters[1] + diameters[2], 2>>

\* C7: in CALIBRATE an accepted measurement appends one sample and adds one set of
\* four primitives (line, two end nodes, label); an undo removes the newest
\* sample and exactly its set, and does nothing when there is no sample; so the
\* calibration primitives in the layer are always those of the samples held, and
\* with no sample left there is none and the average is as at the start.
C7_UndoInvertsAccept ==
    [][/\ (step = "CALIBRATE" /\ Len(diameters') = Len(diameters) + 1)
            => /\ process_release
               /\ Front(diameters') = diameters
               /\ Front(temp_lines') = temp_lines
               /\ Front(log_calibration_data') = log_calibration_data
               /\ Cardinality(Range(Last(temp_lines'))) = 4
               /\ Range(Last(temp_lines')) \cap layer = {}
               /\ layer' = layer \cup Range(Last(temp_lines'))
       /\ (UndoKey /\ step = "CALIBRATE" /\ diameters # <<>>)
            => /\ diameters' = Front(diameters)
               /\ temp_lines' = Front(temp_lines)
               /\ log_calibration_data' = Front(log_calibration_data)
               /\ Range(Last(temp_lines)) \subseteq layer
               /\ layer' = layer \ Range(Last(temp_lines))
       /\ (UndoKey /\ step = "CALIBRATE" /\ diameters = <<>>) => UNCHANGED vars
       /\ step' = "CALIBRATE"
            => /\ Len(temp_lines') = Len(diameters')
               /\ Len(log_calibration_data') = Len(diameters')
               /\ CalPrims(layer') = PrimsOf(temp_lines')
               /\ Cardinality(CalPrims(layer')) = 4 * Len(diameters')
               /\ avg_diameter' = <<0, 1>>]_vars

\* every measurement made was undone again
C7_Witness ==
    /\ step = "CALIBRATE"
    /\ status = "Measure diameter (Drag)"
    /\ diameters = <<>>
    /\ temp_lines = <<>>
    /\ CalPrims(layer) = {}

\* strictly between the sides of the axis-parallel box
StrictlyInside(poly, p) ==
    LET lats == {poly[i].lat : i \in 1..Len(poly)}
        lons == {poly[i].lon : i \in 1..Len(poly)}
    IN  /\ \E a \in lats : a < p.lat
        /\ \E a \in lats : a > p.lat
        /\ \E o \in lons : o < p.lon
        /\ \E o \in lons : o > p.lon

\* C8: in COUNTING a Shift-click strictly inside the box adds exactly one mark,
\* and a Shift-click on an edge of the box or outside it adds none.
C8_StrictlyInsideOnly ==
    [][\A p \in ClickPoints :
          (mouseClicked(p, TRUE) /\ step = "COUNTING" /\ Len(tree_nodes) < MaxTrees)
          => IF StrictlyInside(sample_poly, p)
             THEN Front(tree_nodes') = tree_nodes
             ELSE tree_nodes' = tree_nodes]_vars

\* C9: Enter in COUNTING sets the completion flag whatever was counted; finalize
\* on a session with no mark writes no tag, shows no suggestion, raises nothing
\* and removes the box of the session from the layer.
C9_ZeroCountFinishes ==
    [][/\ (keyPressed(KEY_ENTER) /\ step = "COUNTING") => finished'
       /\ (runs' = runs + 1 /\ tree_nodes = <<>>)
            => /\ target_tags' = target_tags
               /\ dialogs' = dialogs
               /\ raised' = raised
               /\ OwnBox # {}
               /\ layer' = layer \ OwnArtifacts
               /\ UNCHANGED samplerVars]_vars

\* finalize has run on a session without a mark
C9_Witness ==
    /\ runs = 1
    /\ finished
    /\ tree_nodes = <<>>
    /\ status = ""
    /\ dialogs = <<>>
    /\ target_tags \in TargetKinds

\* the tags finalize derives from the survey
DerivedKeys == TagKeys \ {"natural", "landuse"}

\* C10: when finalize shows a suggestion, cancel or closing the dialog leaves
\* every tag of the target as it was; no writes every derived tag and leaves the
\* classification; yes writes every derived tag and the proposed classification.
C10_AnswerDecidesTags ==
    [][Len(dialogs') = Len(dialogs) + 1 =>
        LET d == Last(dialogs')
            dense == d.kind = "scrub->wood"
        IN  /\ target_tags["natural"] = (IF dense THEN <<"scrub">> ELSE <<"wood">>)
            /\ d.answer \in {"CANCEL", "CLOSED"} => target_tags' = target_tags
            /\ d.answer \in {"NO", "YES"} =>
                  /\ \A k \in DerivedKeys : target_tags'[k] # <<>>
                  /\ target_tags'["wood:density"] \in
                        (IF dense THEN {<<"dense">>, <<"very_dense">>}
                                  ELSE {<<"scattered">>, <<"open">>})
                  /\ target_tags'["landuse"] = target_tags["landuse"]
            /\ d.answer = "NO" => target_tags'["natural"] = target_tags["natural"]
            /\ d.answer = "YES" =>
                  target_tags'["natural"] = (IF dense THEN <<"wood">> ELSE <<"scrub">>)]_vars

\* a scrub target became wood on a yes
C10_Witness ==
    /\ Len(dialogs) = 1
    /\ dialogs[1] = [kind |-> "scrub->wood", answer |-> "YES"]
    /\ target_tags["natural"] = <<"wood">>
    /\ target_tags["canopy"] # <<>>

\* finalize runs on a session with at least one mark
FinalizeCounted == runs' = runs + 1 /\ tree_nodes # <<>>

\* C11: the canopy percentage finalize computes, and writes unless the
\* suggestion is cancelled, is a multiple of 5 from 0 to 100.
C11_CanopyMultipleOfFive ==
    [][FinalizeCounted =>
        LET pc == CanopyPc(EstTotal(Len(tree_nodes), sample_area_sqm, total_area),
                           avg_diameter, total_area)
        IN  /\ pc \in 0..100
            /\ pc % 5 = 0
            /\ target_tags' # target_tags => target_tags'["canopy"] = <<pc>>]_vars

\* a canopy beyond the target's area was capped at 100
C11_Witness ==
    /\ runs = 1
    /\ target_tags["canopy"] = <<100>>
    /\ Len(tree_nodes) = 10
    /\ sample_area_sqm = 1200

\* C12: canopy >= 70 is very_dense, 40 <= canopy < 70 dense, 10 <= canopy < 40
\* open and canopy < 10 scattered, for every canopy from 0 to 100.
C12_DensityClassBoundaries ==
    calc.out # <<>> =>
        LET c == calc.arg[1]
            class == calc.out[1]
        IN  /\ c >= 70 => class = "very_dense"
            /\ (40 <= c /\ c < 70) => class = "dense"
            /\ (10 <= c /\ c < 40) => class = "open"
            /\ c < 10 => class = "scattered"
            /\ <<c, class>> \notin {<<70, "dense">>, <<69, "very_dense">>, <<40, "open">>,
                                    <<39, "dense">>, <<10, "scattered">>, <<9, "open">>}

\* 40 was classified, as dense
C12_Witness == calc = [fn |-> "density_class", arg |-> <<40>>, out |-> <<"dense">>]

\* C13: with a positive count the estimated total is the floor of count / area *
\* target area, the canopy is the multiple of 5 nearest to 100 * total * disk of
\* one specimen / target area, capped at 100, and the class follows; the box of
\* 20 m x 10 m with mean 2.0 m, 10 marks and 5000 m2 gives 250, 15 and open.
C13_Extrapolation ==
    [][(FinalizeCounted /\ target_tags' # target_tags) =>
        LET count == Len(tree_nodes)
            est == target_tags'["est:stem_count"][1]
            pc == target_tags'["canopy"][1]
            \* twice (est * pi * (avg / 2) ** 2 / total_area * 100 / 5), cut off
            q == (2 * est * 355 * avg_diameter[1] * avg_diameter[1])
                     \div (80 * avg_diameter[2] * avg_diameter[2] * total_area * 113)
        IN  /\ est * sample_area_sqm <= 400 * count * total_area
            /\ 400 * count * total_area < (est + 1) * sample_area_sqm
            /\ pc % 5 = 0
            /\ IF q >= 39 THEN pc = 100
               ELSE 2 * (pc \div 5) - 1 <= q /\ q <= 2 * (pc \div 5)
            /\ target_tags'["wood:density"] =
                   <<CASE pc >= 70 -> "very_dense" [] pc >= 40 /\ pc < 70 -> "dense"
                       [] pc >= 10 /\ pc < 40 -> "open" [] pc < 10 -> "scattered">>
            /\ (count = 10 /\ sample_area_sqm = 80000 /\ avg_diameter = <<40, 1>>
                  /\ total_area = 5000)
               => (est = 250 /\ pc = 15 /\ target_tags'["wood:density"] = <<"open">>)]_vars

\* the scenario of the 20 m x 10 m box has been finalized
C13_Witness ==
    /\ runs = 1
    /\ Len(tree_nodes) = 10
    /\ log_box_dims = <<400, 200>>
    /\ avg_diameter = <<40, 1>>
    /\ total_area = 5000
    /\ target_tags["est:stem_count"] = <<250>>
    /\ target_tags["canopy"] = <<15>>
    /\ target_tags["wood:density"] = <<"open">>

\* C14: whatever happens in finalize, the host rejecting a tag included, either
\* every derived tag is on the target afterwards or the target's tags are as
\* they were.
C14_AllOrNothing ==
    [][runs' = runs + 1 =>
          \/ target_tags' = target_tags
          \/ \A k \in DerivedKeys : target_tags'[k] # <<>>]_vars

\* C15: a set-up that is aborted (no data layer, nothing selected, the imagery
\* warning declined, the date prompt cancelled or the vegetation choice closed)
\* constructs no sampler, registers no listener, starts no monitor and creates
\* no artifact or tag, then and ever after; a set-up whose imagery warning is
\* accepted goes on to the date prompt and, when it installs the sampler, has
\* "Unknown Source" as the imagery name.
C15_AbortedSetupInstallsNothing ==
    [][/\ setup_pc = "start" => \A env \in SetupEnvs :
            (run_analyzer(env) /\ (env.layer /\ env.selected => env.area = "ok")) =>
               /\ SetupReturns(env) <=> setup_pc' = "aborted"
               /\ ~SetupReturns(env) <=> setup_pc' = "installed"
               /\ setup_pc' = "installed" =>
                     /\ step' = "DRAW_BOX"
                     /\ listeners' = {"mouse", "motion", "key"}
                     /\ monitor_pc' = "wait"
               /\ (env.layer /\ env.selected /\ env.imagery = "" /\ env.warn = "YES") =>
                     /\ \E i \in 1..Len(dialogs') : dialogs'[i].kind = "Imagery Date"
                     /\ setup_pc' = "installed" => source_tag_val'[1] = "Unknown Source"
       /\ setup_pc' = "aborted" =>
            /\ step' = "NONE"
            /\ listeners' = {}
            /\ monitor_pc' = "unstarted"
            /\ layer' = {}
            /\ edt' = <<>>
            /\ target_tags' \in TargetKinds
            /\ runs' = 0]_vars

\* the imagery warning was declined and nothing is installed
C15_Witness ==
    /\ setup_pc = "aborted"
    /\ dialogs = <<[kind |-> "Missing Imagery Warning", answer |-> "NO"]>>
    /\ step = "NONE"
    /\ listeners = {}

\* C16: when the area of the target cannot be computed (computeArea throws or
\* gives no area) run_analyzer shows a message and installs nothing.
C16_AreaFailureSurfaced ==
    [][setup_pc = "start" => \A env \in SetupEnvs :
          (run_analyzer(env) /\ env.layer /\ env.selected /\ env.area # "ok") =>
             /\ dialogs' # dialogs
             /\ step' = "NONE"
             /\ listeners' = {}
             /\ monitor_pc' = "unstarted"]_vars

\* C17: a step of the monitor thread only polls, deregisters the listeners or
\* queues finalize: it leaves the sampler, the layer, the status line and the
\* target alone; whatever changes them is a handler or a task of the UI queue,
\* and finalize runs as the task at the head of that queue once the monitor is
\* done and the listeners are gone.
C17_DataOnUiThread ==
    [][/\ monitor_pc' # monitor_pc =>
            /\ UNCHANGED <<samplerVars, layer, status, target_tags, dialogs, batch, runs>>
            /\ \/ edt' = edt
               \/ /\ edt' = Append(edt, [type |-> "finalize", p1 |-> NoPoint,
                                         end_p |-> NoPoint])
                  /\ listeners = {}
       /\ runs' # runs =>
            /\ edt # <<>>
            /\ Head(edt).type = "finalize"
            /\ edt' = Tail(edt)
            /\ monitor_pc = "done"
            /\ monitor_pc' = "done"
            /\ listeners = {}]_vars

\* the monitor has removed the listeners while a release task still waits in
\* the UI queue
C17_Witness ==
    /\ monitor_pc = "invokeLater"
    /\ listeners = {}
    /\ edt # <<>>
    /\ Head(edt).type = "release"
    /\ tree_nodes # <<>>

\* C18: finalize on a counted session shows the upgrade suggestion exactly when
\* the class is dense or very_dense and natural is scrub, the downgrade
\* suggestion exactly when the class is scattered or open, natural is wood and
\* landuse is not forest, and otherwise shows nothing and writes the derived
\* tags with natural and landuse as they were.
C18_SuggestionCases ==
    [][FinalizeCounted =>
        LET class == DensityClass(CanopyPc(EstTotal(Len(tree_nodes), sample_area_sqm,
                                                    total_area),
                                           avg_diameter, total_area))
            up == class \in {"dense", "very_dense"} /\ target_tags["natural"] = <<"scrub">>
            down == /\ class \in {"scattered", "open"}
                    /\ target_tags["natural"] = <<"wood">>
                    /\ target_tags["landuse"] # <<"forest">>
        IN  /\ up => (Len(dialogs') = Len(dialogs) + 1
                        /\ Last(dialogs').kind = "scrub->wood")
            /\ down => (Len(dialogs') = Len(dialogs) + 1
                          /\ Last(dialogs').kind = "wood->scrub")
            /\ (~up /\ ~down) =>
                  /\ dialogs' = dialogs
                  /\ \A k \in DerivedKeys : target_tags'[k] # <<>>
                  /\ target_tags'["wood:density"] = <<class>>
                  /\ target_tags'["natural"] = target_tags["natural"]
                  /\ target_tags'["landuse"] = target_tags["landuse"]]_vars

\* a scattered wood tagged landuse=forest got its tags without a suggestion
C18_Witness ==
    /\ runs = 1
    /\ dialogs = <<>>
    /\ target_tags["natural"] = <<"wood">>
    /\ target_tags["landuse"] = <<"forest">>
    /\ target_tags["wood:density"] = <<"scattered">>

\* C19: Enter in CALIBRATE takes every calibration primitive (and the label of
\* the box) out of the layer and keeps the diameters and their log; in COUNTING
\* no calibration primitive is in the layer, and a release task that runs in
\* COUNTING adds none and no diameter.
C19_CalibrationArtifactsGone ==
    [][/\ (step = "CALIBRATE" /\ step' = "COUNTING") =>
            /\ layer' = layer \ (CalPrims(layer) \cup {q \in layer : q[1] = "label"})
            /\ diameters' = diameters
            /\ log_calibration_data' = log_calibration_data
       /\ step' = "COUNTING" => (CalPrims(layer') = {} /\ temp_lines' = <<>>)
       /\ (process_release /\ step = "COUNTING") =>
            UNCHANGED <<layer, diameters, log_calibration_data, temp_lines,
                        avg_diameter>>]_vars

\* in COUNTING, before any mark, a release of a drag long enough for a
\* measurement waits in the UI queue
C19_Witness ==
    /\ step = "COUNTING"
    /\ status = "SHIFT+CLICK to count."
    /\ edt # <<>>
    /\ Head(edt).type = "release"
    /\ GreatCircleDistance(Head(edt).p1, Head(edt).end_p) > CLICK_TOLERANCE
    /\ CalPrims(layer) = {}
    /\ Len(diameters) = 1

\* beyond a side of the axis-parallel box
Outside(poly, p) ==
    LET lats == {poly[i].lat : i \in 1..Len(poly)}
        lons == {poly[i].lon : i \in 1..Len(poly)}
    IN  \/ \A a \in lats : p.lat < a
        \/ \A a \in lats : p.lat > a
        \/ \A o \in lons : p.lon < o
        \/ \A o \in lons : p.lon > o

\* C20: a calibration drag of at most the click tolerance, a click in COUNTING
\* outside the box or without Shift, a Shift-click in another stage and an undo
\* with nothing to undo leave the stage, the samples, the marks and the layer
\* as they are.
C20_InvalidInputAbsorbed ==
    [][(\/ /\ process_release
           /\ step = "CALIBRATE"
           /\ GreatCircleDistance(Head(edt).p1, Head(edt).end_p) <= CLICK_TOLERANCE
        \/ \E p \in ClickPoints, shift \in BOOLEAN :
              /\ mouseClicked(p, shift)
              /\ step # "COUNTING" \/ ~shift \/ Outside(sample_poly, p)
        \/ \E p \in PressPoints : mousePressed(p, TRUE)
        \/ /\ UndoKey
           /\ \/ step = "DRAW_BOX"
              \/ step = "CALIBRATE" /\ diameters = <<>>
              \/ step = "COUNTING" /\ tree_nodes = <<>>)
       => UNCHANGED <<step, finished, diameters, temp_lines, log_calibration_data,
                      avg_diameter, tree_nodes, layer>>]_vars

\* a drag in CALIBRATE was released and its task ran without leaving a sample
C20_Witness ==
    /\ step = "CALIBRATE"
    /\ status = "Measuring Diameter"
    /\ start_p = NoPoint
    /\ edt = <<>>
    /\ diameters = <<>>
    /\ CalPrims(layer) = {}

\* C21: the marks carry the indices 1, 2, ..., n in the order they were accepted,
\* n being the count, each on a primitive of its own; the marks grow only by an
\* accepted Shift-click in COUNTING, which appends the mark n + 1 and adds its
\* node to the layer, and shrink only by an undo in COUNTING, which removes the
\* mark n and takes its node out of the layer.
C21_MarksNumbered ==
    [][/\ \A i \in 1..Len(tree_nodes') : tree_nodes'[i].name = i
       /\ \A i, j \in 1..Len(tree_nodes') :
             tree_nodes'[i].prim = tree_nodes'[j].prim => i = j
       /\ tree_nodes' # tree_nodes =>
             \/ /\ \E p \in ClickPoints : mouseClicked(p, TRUE)
                /\ step = "COUNTING"
                /\ Front(tree_nodes') = tree_nodes
                /\ Last(tree_nodes').name = Len(tree_nodes) + 1
                /\ Last(tree_nodes').prim \notin layer
                /\ layer' = layer \cup {Last(tree_nodes').prim}
             \/ /\ UndoKey
                /\ step = "COUNTING"
                /\ tree_nodes # <<>>
                /\ tree_nodes' = Front(tree_nodes)
                /\ Last(tree_nodes).name = Len(tree_nodes)
                /\ Last(tree_nodes).prim \in layer
                /\ layer' = layer \ {Last(tree_nodes).prim}]_vars

\* two marks stand in the box, numbered 1 and 2, while the count goes on
C21_Witness ==
    /\ step = "COUNTING"
    /\ ~finished
    /\ Len(tree_nodes) = 2
    /\ tree_nodes[1].name = 1
    /\ tree_nodes[2].name = 2
    /\ {tree_nodes[1].prim, tree_nodes[2].prim} \subseteq layer

\* C22: once Enter has set the completion flag the marks no longer change: no
\* click and no key delivered afterwards adds or removes one, so finalize counts
\* the marks that stood when Enter was pressed.
C22_MarksFrozenOnceFinished ==
    [][finished => tree_nodes' = tree_nodes]_vars

\* C23: once Enter is pressed in COUNTING the monitor sees the flag, removes the
\* three listeners and finalize runs on the UI thread, eventually and once: it
\* never runs a second time, however often Enter is pressed, and it runs only
\* with the flag set, the listeners removed and the monitor at its end.
C23_FinalizeOnceAfterConfirm ==
    /\ finished ~> (listeners = {} /\ runs = 1)
    /\ [](runs <= 1)
    /\ [][runs' # runs =>
            /\ runs' = runs + 1
            /\ finished
            /\ listeners = {}
            /\ monitor_pc = "done"
            /\ Head(edt).type = "finalize"]_vars
    /\ [][listeners' # listeners => (finished /\ listeners' = {})]_vars

\* finalize has run once, in a session whose last press was not yet released
\* when the listeners were removed
C23_Witness ==
    /\ runs = 1
    /\ finished
    /\ listeners = {}
    /\ monitor_pc = "done"
    /\ edt = <<>>
    /\ start_p # NoPoint

\* C24: after finalize has run nothing the session added to the layer is left
\* in it (the layer was empty when the session began), whatever the count, the
\* answer to the suggestion and the events before.
C24_NoArtifactAfterFinalize ==
    runs > 0 => layer = {}

\* C25: every run of finalize, the one in which the host rejects a tag included,
\* opens one update batch on the data set and closes it: the batches begun and
\* ended are always as many as the runs; finalize runs once, and after a failure
\* nothing is tried again.
C25_BatchClosedOnce ==
    /\ [](batch.begun = runs /\ batch.ended = runs /\ runs <= 1)
    /\ [][runs' # runs =>
            batch' = [begun |-> batch.begun + 1, ended |-> batch.ended + 1]]_vars
    /\ [][raised # {} => UNCHANGED vars]_vars

\* the host rejected a tag after one was written: the batch is closed, the
\* marks and the box are still in the layer
C25_Witness ==
    /\ raised = {"target.put"}
    /\ batch = [begun |-> 1, ended |-> 1]
    /\ target_tags["canopy"] # <<>>
    /\ target_tags["est:stem_count"] = <<>>
    /\ BoxWay(1) \in layer
    /\ edt = <<>>

\* C26: the diameters and the calibration records of the log are as many and in
\* the same order, the record at each place being that of the diameter at that
\* place, in every state; while the stage is CALIBRATE the sets of calibration
\* artifacts are as many too, one set of the layer for each diameter.
C26_CalibrationListsAligned ==
    /\ Len(log_calibration_data) = Len(diameters)
    /\ \A i \in 1..Len(diameters) :
          /\ log_calibration_data[i][5] = diameters[i]
          /\ diameters[i] = GreatCircleDistance(
                 Pt(log_calibration_data[i][1], log_calibration_data[i][2]),
                 Pt(log_calibration_data[i][3], log_calibration_data[i][4]))
    /\ step = "CALIBRATE" =>
          /\ Len(temp_lines) = Len(diameters)
          /\ \A i \in 1..Len(temp_lines) : temp_lines[i] = CalSet(i)
    /\ step = "DRAW_BOX" => (diameters = <<>> /\ temp_lines = <<>>)

\* one measurement of 2.45 m is held, and the drag after it was released and
\* ignored
C26_Witness ==
    /\ step = "CALIBRATE"
    /\ status = "Measuring Diameter"
    /\ edt = <<>>
    /\ start_p = NoPoint
    /\ Len(diameters) = 1
    /\ Len(temp_lines) = 1
    /\ log_calibration_data = <<(<<20, 20, 56, 54, 49>>)>>

====
